---- MODULE Spec2Model ----
(***************************************************************************)
(* A model of beryllium (src/src/lib.rs), a safe layer over the SDL2 C API. *)
(*                                                                         *)
(* Three parts share this module:                                          *)
(*   - the ownership hierarchy SDLToken -> Window -> Renderer -> Texture   *)
(*     (and Surface, Controller, AudioQueue, CDyLib under the token),      *)
(*     with the native library's handles and its last-error string;       *)
(*   - the event pump poll_event over the native event queue;              *)
(*   - the bit-packed pixel format decoder PixelFormatEnum.                *)
(*                                                                         *)
(* The native library is the environment: what a native call returns is a  *)
(* nondeterministic choice among the outcomes its C interface allows.      *)
(* Rust's ownership rules are part of the program: a value can be used     *)
(* only while it is alive, and it can be dropped only when nothing         *)
(* borrowed from it is alive (the PhantomData<&'a Parent> markers).        *)
(***************************************************************************)
EXTENDS Integers, Sequences, FiniteSets, TLC

\* ------------------------------------------------------------------ bounds

\* Native handles (of all kinds together) that may be live at once.
MaxHandles == 4
\* Native handles of one kind that may be live at once.
MaxPerKind == 2
\* Tokens that may be live at once when init()'s safety contract is ignored.
MaxTokens == 2
\* Records the native event queue holds at once.
MaxQueue == 2
\* Records posted to the native event queue during one initialization.
MaxEvents == 3

\* ------------------------------------------------------------------ state

VARIABLES
  sdlLive,        \* native: SDL_Init has succeeded and SDL_Quit has not run since
  sdlError,       \* native: the process-wide last-error string (SDL_GetError)
  valid,          \* native: handles the library has issued and not destroyed
  tokens,         \* Rust: the SDLToken values alive
  within,         \* native: the object each valid handle was created from
  alive,          \* Rust: the wrapper values that are alive
  ptr,            \* Rust: the handle each wrapper holds (its ptr field)
  parent,         \* Rust: what each wrapper borrows from (its lifetime parameter)
  audio,          \* Rust: the fields of each AudioQueue
  call,           \* history: the last call made into this layer
  contractBroken, \* history: init() was called while a token was alive
  queue,          \* native: the event queue
  pushed,         \* history: every record posted since initialization, in order
  polled,         \* history: every event poll_event returned since initialization
  raw,            \* pixel formats: a format code as the native library reports it
  fmt,            \* pixel formats: the PixelFormatEnum value, as its discriminant
  dec,            \* pixel formats: what the accessors return for fmt
  kept            \* Rust: the DisplayMode value the caller holds

resVars ==
  <<sdlLive, sdlError, valid, within, tokens, alive, ptr, parent, audio, call, contractBroken>>
evVars == <<queue, pushed, polled>>
pixVars == <<raw, fmt, dec>>
vars == <<sdlLive, sdlError, valid, within, tokens, alive, ptr, parent, audio, call,
          contractBroken, queue, pushed, polled, raw, fmt, dec, kept>>

\* ---------------------------------------------------------------- handles

\* A native handle is an opaque pointer (or device id): the i-th address of a
\* kind. A wrapper value is named the same way, the i-th wrapper of a kind; the
\* handle it holds is ptr[w], and two wrappers may hold the same handle.
Kinds == {"window", "renderer", "texture", "surface", "controller", "audio", "cdylib"}
Handles == Kinds \X (1..MaxPerKind)
\* The null pointer, and the device id 0.
NULL == <<"null", 0>>
TokenIds == {"token"} \X (1..MaxTokens)
NoParent == <<"none", 0>>
NoAudio == [frequency |-> 0, format |-> 0, channels |-> 0]

KindOf(h) == h[1]

\* The handles of a kind.
OfKind(kind) == {h \in Handles : KindOf(h) = kind}

\* The handles that live wrappers hold.
Held == {ptr[w] : w \in alive}

\* The first name of a kind outside `taken`, NULL when there is none.
Fresh(kind, taken) ==
  LET free == {i \in 1..MaxPerKind : <<kind, i>> \notin taken}
  IN  IF free = {} THEN NULL ELSE <<kind, CHOOSE i \in free : \A j \in free : i <= j>>

\* The addresses of destroyed objects that a stale wrapper still holds: the
\* allocator may hand such an address out again.
Dangling(kind) == {h \in Held \ valid : KindOf(h) = kind}

\* The model's bound on live wrappers and on live handles.
Room == Cardinality(alive) < MaxHandles /\ Cardinality(valid) < MaxHandles

FreshToken ==
  LET free == {i \in 1..MaxTokens : <<"token", i>> \notin tokens}
  IN  IF free = {} THEN NULL ELSE <<"token", CHOOSE i \in free : \A j \in free : i <= j>>

\* ---------------------------------------------------------------- results

Ok(v) == [tag |-> "Ok", val |-> v]
Err(s) == [tag |-> "Err", val |-> s]
Some(v) == [tag |-> "Some", val |-> v]
None == [tag |-> "None", val |-> 0]
Unit == [tag |-> "Unit", val |-> 0]

\* No call is in progress: the caller has taken the last result.
NoCall == [op |-> "none", args |-> <<>>, handles |-> {}, owned |-> TRUE, live |-> TRUE,
           nat |-> 0, ret |-> Unit, made |-> NULL]

\* x is a live token, or a live wrapper whose chain of owners ends in one.
RECURSIVE Anchored(_, _)
Anchored(x, n) ==
  \/ x \in tokens
  \/ n > 0 /\ x \in alive /\ Anchored(parent[x], n - 1)

\* The functions that take no token: init, and lone_message_box, which "doesn't
\* require SDL2 to be initialized".
TokenFree == {"init", "lone_message_box"}

\* A return value that is neither a Result nor an Option.
Plain(v) == [tag |-> "Plain", val |-> v]

\* A call record: the operation, the arguments it gives the native function,
\* the wrappers whose handles it passes, whether the owner of each and all of
\* its ancestors were alive when it did (owned), whether the native subsystem
\* and those handles were live then (live), what the native call returned,
\* what the layer returned, and the wrapper value it made, if any.
Call(op, args, handles, nat, ret) ==
  [op |-> op, args |-> args, handles |-> handles,
   owned |-> (op \in TokenFree \/ tokens # {}) /\ \A h \in handles : Anchored(h, MaxHandles),
   live |-> (op \in TokenFree \/ sdlLive) /\ {ptr[h] : h \in handles} \subseteq valid,
   nat |-> nat, ret |-> ret, made |-> NULL]

\* The layer is single-threaded and synchronous: a call starts only when the
\* one before has returned.
Idle == call = NoCall

\* The caller takes the result of the call.
Return ==
  /\ ~Idle
  /\ call' = NoCall
  /\ UNCHANGED <<sdlLive, sdlError, valid, within, tokens, alive, ptr, parent, audio,
                 contractBroken, queue, pushed, polled, raw, fmt, dec, kept>>

\* ------------------------------------------------------ the native library

\* What a failing native call may leave in the last-error string.
ErrorTexts == {"e1", "e2"}

\* A native constructor returns a handle, at a new address or at the address of
\* a destroyed object, and leaves the error string alone, or returns null
\* (device id 0) and writes an error.
PtrOutcomes(kind) ==
  {[ptr |-> h, msg |-> sdlError] :
     h \in ({Fresh(kind, valid \cup Held)} \ {NULL}) \cup Dangling(kind)}
  \cup {[ptr |-> NULL, msg |-> m] : m \in ErrorTexts}

\* A native function with a status code returns 0, or a negative code and
\* writes an error.
StatusOutcomes ==
  {[rc |-> 0, msg |-> sdlError]} \cup {[rc |-> -1, msg |-> m] : m \in ErrorTexts}

\* A native function that reports no failure returns one of vals and may
\* leave an error behind or not.
QueryOutcomes(vals) ==
  {[val |-> v, msg |-> m] : v \in vals, m \in {sdlError} \cup ErrorTexts}

\* SDL_NumJoysticks returns a count, or a negative code and writes an error.
CountOutcomes ==
  {[rc |-> n, msg |-> sdlError] : n \in {0, 3}}
  \cup {[rc |-> -1, msg |-> m] : m \in ErrorTexts}

\* The borrow checker: a value can be used only while it is alive.
UsableAlways(used) == TRUE
Usable(used) == used \subseteq alive

\* The borrow checker: x may be dropped only when no live value borrows from it.
NoBorrowersLoose(x) == TRUE
NoBorrowers(x) == \A c \in alive : parent[c] # x

\* Destroying a native object ends it and everything the library derived from it.
RECURSIVE Derived(_, _)
Derived(hs, n) ==
  IF n = 0 THEN hs
  ELSE Derived(hs \cup {c \in valid : within[c] \in hs}, n - 1)

NativeDestroyNothing(h) == valid
NativeDestroy(h) == valid \ Derived({h}, MaxHandles)

\* ------------------------------------------------------------------- init

\* pub unsafe fn init() -> Result<SDLToken, String>
init_resultInverted(rc, err, tok) == IF rc # 0 THEN Ok(tok) ELSE Err(err)
init_result(rc, err, tok) == IF rc = 0 THEN Ok(tok) ELSE Err(err)

init(out) ==
  /\ Idle
  /\ Cardinality(tokens) < MaxTokens
  /\ sdlLive' = (sdlLive \/ out.rc = 0)
  /\ sdlError' = out.msg
  /\ LET r == init_result(out.rc, out.msg, FreshToken) IN
       /\ tokens' = IF r.tag = "Ok" THEN tokens \cup {r.val} ELSE tokens
       /\ call' = Call("init", <<>>, {}, out.rc, r)
  /\ contractBroken' = (contractBroken \/ tokens # {})
  /\ UNCHANGED <<valid, within, alive, ptr, parent, audio>>
  /\ UNCHANGED evVars
  /\ UNCHANGED pixVars
  /\ UNCHANGED kept

\* impl Drop for SDLToken: SDL_Quit()
SDLToken_drop(t) ==
  /\ Idle
  /\ t \in tokens
  /\ NoBorrowers(t)
  /\ tokens' = tokens \ {t}
  /\ sdlLive' = FALSE
  /\ valid' = {}
  /\ within' = [h \in DOMAIN within |-> NULL]
  /\ call' = Call("SDLToken::drop", <<>>, {}, 0, Unit)
  /\ queue' = <<>>
  /\ pushed' = <<>>
  /\ polled' = <<>>
  /\ UNCHANGED <<sdlError, alive, ptr, parent, audio, contractBroken>>
  /\ UNCHANGED pixVars
  /\ UNCHANGED kept

\* ------------------------------------------------------- acquiring handles

\* What every constructor does once its native call has returned out.ptr and
\* the layer has built its result r: the library has issued the handle (when
\* not null) from the owner's handle, and an Ok result is a new wrapper value
\* w holding `held` and borrowing from owner.
Acquire(op, owner, args, used, out, r, held, fields) ==
  LET w == IF held = NULL THEN NULL ELSE Fresh(KindOf(held), alive) IN
  /\ Idle
  /\ Room
  /\ held # NULL => w # NULL
  /\ Usable(used)
  /\ sdlError' = out.msg
  /\ valid' = IF out.ptr = NULL THEN valid ELSE valid \cup {out.ptr}
  /\ within' = IF out.ptr = NULL THEN within
               ELSE [within EXCEPT ![out.ptr] = IF owner \in alive THEN ptr[owner] ELSE NULL]
  /\ alive' = IF r.tag = "Ok" THEN alive \cup {w} ELSE alive
  /\ ptr' = IF r.tag = "Ok" THEN [ptr EXCEPT ![w] = held] ELSE ptr
  /\ parent' = IF r.tag = "Ok" THEN [parent EXCEPT ![w] = owner] ELSE parent
  /\ audio' = IF r.tag = "Ok" THEN [audio EXCEPT ![w] = fields] ELSE audio
  /\ call' = [Call(op, args, used, out.ptr, r) EXCEPT
               !.made = IF r.tag = "Ok" THEN w ELSE NULL]
  /\ UNCHANGED <<sdlLive, tokens, contractBroken>>
  /\ UNCHANGED evVars
  /\ UNCHANGED pixVars
  /\ UNCHANGED kept

\* The shape shared by create_rgb_surface, open_controller, load_cdylib,
\* create_renderer and create_texture_from_surface:
\* if ptr.is_null() { Err(get_error()) } else { Ok(Wrapper { ptr, .. }) }
NullCheck(p, err) == IF p = NULL THEN Err(err) ELSE Ok(p)

Titles == {"t"}
Positions == {0}
Widths == {0, 800}
Heights == {600}
SDL_WINDOW_SHOWN == 4
WindowFlagSets == {0, SDL_WINDOW_SHOWN}

\* SDLToken::create_window
create_window_resultInverted(p, err) == IF p = NULL THEN Ok(p) ELSE Err(err)
create_window_result(p, err) == IF p = NULL THEN Err(err) ELSE Ok(p)

create_window(t, title, x, y, w, h, flags, out) ==
  /\ t \in tokens
  /\ Acquire("create_window", t, <<title, x, y, w, h, flags>>, {},
             out, create_window_result(out.ptr, out.msg), out.ptr, NoAudio)

\* SDLToken::create_rgb_surface: the depth and channel masks a format selects.
SurfaceFormats ==
  {[variant |-> "Indexed8", r_mask |-> 0, g_mask |-> 0, b_mask |-> 0, a_mask |-> 0],
   [variant |-> "Direct32", r_mask |-> 255, g_mask |-> 65280, b_mask |-> 16711680,
    a_mask |-> 0]}

SurfaceArgs(format) ==
  CASE format.variant = "Indexed4" -> <<4, 0, 0, 0, 0>>
    [] format.variant = "Indexed8" -> <<8, 0, 0, 0, 0>>
    [] format.variant = "Direct16" ->
         <<16, format.r_mask, format.g_mask, format.b_mask, format.a_mask>>
    [] format.variant = "Direct24" ->
         <<24, format.r_mask, format.g_mask, format.b_mask, format.a_mask>>
    [] format.variant = "Direct32" ->
         <<32, format.r_mask, format.g_mask, format.b_mask, format.a_mask>>

create_rgb_surface(t, width, height, format, out) ==
  /\ t \in tokens
  /\ Acquire("create_rgb_surface", t, <<0, width, height>> \o SurfaceArgs(format), {},
             out, NullCheck(out.ptr, out.msg), out.ptr, NoAudio)

\* `u as i32` on an unsigned integer. u is written <<q, r>>, u = q * 2^31 + r
\* with 0 <= r < 2^31 (q is 0 or 1 for a u32). The cast keeps the low 32 bits
\* and reads them as two's complement.
AsI32(u) == IF u[1] % 2 = 1 THEN u[2] - 2147483647 - 1 ELSE u[2]

\* SDLToken::open_controller: SDL_GameControllerOpen(index as i32)
open_controller(t, index, out) ==
  /\ t \in tokens
  /\ Acquire("open_controller", t, <<AsI32(index)>>, {},
             out, NullCheck(out.ptr, out.msg), out.ptr, NoAudio)

\* SDLToken::load_cdylib
load_cdylib(t, name, out) ==
  /\ t \in tokens
  /\ Acquire("load_cdylib", t, <<name>>, {},
             out, NullCheck(out.ptr, out.msg), out.ptr, NoAudio)

\* SDLToken::open_default_audio_queue
SDL_AUDIO_ALLOW_FREQUENCY_CHANGE == 1
SDL_AUDIO_ALLOW_FORMAT_CHANGE == 2
SDL_AUDIO_ALLOW_CHANNELS_CHANGE == 4
AUDIO_S16LSB == 32784
AUDIO_F32LSB == 33056

\* let mut changes = 0; if request.allow_.. { changes |= .. }
Changes(request) ==
  (IF request.allow_frequency_change THEN SDL_AUDIO_ALLOW_FREQUENCY_CHANGE ELSE 0)
  + (IF request.allow_format_change THEN SDL_AUDIO_ALLOW_FORMAT_CHANGE ELSE 0)
  + (IF request.allow_channels_change THEN SDL_AUDIO_ALLOW_CHANNELS_CHANGE ELSE 0)

DesiredSpec(request) ==
  [freq |-> request.frequency, format |-> request.format,
   channels |-> request.channels, samples |-> request.samples,
   silence |-> 0, size |-> 0]

\* SDL_AudioSpec::default(): a zeroed record.
DefaultAudioSpec ==
  [freq |-> 0, format |-> 0, channels |-> 0, samples |-> 0, silence |-> 0, size |-> 0]

BytesPerSample(format) == (format % 256) \div 8

\* What SDL_OpenAudioDevice may have written into obtained_spec when it
\* returns a device: the desired values or others, in each dimension. The
\* layer reads the record as it is, whatever the mask allowed, so nothing is
\* assumed here about the library keeping to the mask.
ObtainedSpecs(desired) ==
  {[freq |-> f, format |-> m, channels |-> c, samples |-> desired.samples,
    silence |-> 0, size |-> desired.samples * c * BytesPerSample(m)] :
     f \in {desired.freq, 48000},
     m \in {desired.format, AUDIO_F32LSB},
     c \in {desired.channels, 1}}

\* The outcomes of SDL_OpenAudioDevice: a device id with an obtained spec.
AudioOutcomes(request) ==
  {[ptr |-> o.ptr, msg |-> o.msg, obtained |-> s] :
     o \in {x \in PtrOutcomes("audio") : x.ptr # NULL},
     s \in ObtainedSpecs(DesiredSpec(request))}
  \cup {[ptr |-> o.ptr, msg |-> o.msg, obtained |-> DefaultAudioSpec] :
          o \in {x \in PtrOutcomes("audio") : x.ptr = NULL}}

open_default_audio_queue_result(dev, obtained, err) ==
  IF dev = NULL THEN Err(err)
  ELSE Ok([dev |-> dev, frequency |-> obtained.freq, format |-> obtained.format,
           channels |-> obtained.channels, silence |-> obtained.silence,
           sample_count |-> obtained.samples, buffer_size |-> obtained.size])

open_default_audio_queue(t, request, out) ==
  /\ t \in tokens
  /\ LET r == open_default_audio_queue_result(out.ptr, out.obtained, out.msg)
     IN Acquire("open_default_audio_queue", t,
                <<DesiredSpec(request), Changes(request)>>, {}, out, r,
                IF r.tag = "Ok" THEN r.val.dev ELSE NULL,
                IF r.tag = "Ok"
                  THEN [frequency |-> r.val.frequency, format |-> r.val.format,
                        channels |-> r.val.channels]
                  ELSE NoAudio)

\* Window::create_renderer: driver_index.map(|u| u as i32).unwrap_or(-1)
DriverIndex(driver_index) ==
  IF driver_index.tag = "Some" THEN AsI32(driver_index.val) ELSE -1

create_renderer(w, driver_index, flags, out) ==
  /\ KindOf(w) = "window"
  /\ Acquire("create_renderer", w, <<DriverIndex(driver_index), flags>>, {w},
             out, NullCheck(out.ptr, out.msg), out.ptr, NoAudio)

\* Renderer::create_texture_from_surface
create_texture_from_surface(r, surf, out) ==
  /\ KindOf(r) = "renderer"
  /\ KindOf(surf) = "surface"
  /\ Acquire("create_texture_from_surface", r, <<>>, {r, surf},
             out, NullCheck(out.ptr, out.msg), out.ptr, NoAudio)

\* ----------------------------------------------------------- using handles

\* A method that only calls into the library, passing `used`.
Use(op, args, used, nat, msg, ret) ==
  /\ Idle
  /\ Usable(used)
  /\ sdlError' = msg
  /\ call' = Call(op, args, used, nat, ret)
  /\ UNCHANGED <<sdlLive, valid, within, tokens, alive, ptr, parent, audio, contractBroken>>
  /\ UNCHANGED evVars
  /\ UNCHANGED pixVars
  /\ UNCHANGED kept

\* The shape shared by clear, copy, set_display_mode and set_fullscreen_style:
\* if out == 0 { Ok(()) } else { Err(get_error()) }
StatusCheckNoText(rc, err) == IF rc = 0 THEN Ok(0) ELSE Err("")
StatusCheck(rc, err) == IF rc = 0 THEN Ok(0) ELSE Err(err)

SDL_WINDOW_FULLSCREEN == 1
SDL_WINDOW_FULLSCREEN_DESKTOP == 4097
FullscreenStyles == {SDL_WINDOW_FULLSCREEN, SDL_WINDOW_FULLSCREEN_DESKTOP, 0}

\* Window::set_fullscreen_style
set_fullscreen_style(w, style, out) ==
  /\ KindOf(w) = "window"
  /\ Use("set_fullscreen_style", <<style>>, {w}, out.rc, out.msg,
         StatusCheck(out.rc, out.msg))

\* enum MessageBox: Error, Warning, Information
MessageBoxes == {16, 32, 64}

\* lone_message_box: SDL_ShowSimpleMessageBox with a null window; no token is
\* needed.
lone_message_box(box_type, title, message, out) ==
  Use("lone_message_box", <<box_type, title, message, NULL>>, {}, out.rc, out.msg,
      StatusCheck(out.rc, out.msg))

\* Window::modal_message_box: SDL_ShowSimpleMessageBox with the window.
modal_message_box(w, box_type, title, message, out) ==
  /\ KindOf(w) = "window"
  /\ Use("modal_message_box", <<box_type, title, message, ptr[w]>>, {w}, out.rc, out.msg,
         StatusCheck(out.rc, out.msg))

\* Window::size: SDL_GetWindowSize writes the size over the zeros (out.val is
\* what w and h hold afterwards); the pair is returned.
size(w, out) ==
  /\ KindOf(w) = "window"
  /\ Use("size", <<>>, {w}, out.val, out.msg, Plain(out.val))

\* Window::set_size: SDL_SetWindowSize returns nothing.
set_size(w, width, height, out) ==
  /\ KindOf(w) = "window"
  /\ Use("set_size", <<width, height>>, {w}, 0, out.msg, Unit)

\* SDLToken::number_of_joysticks
number_of_joysticks_result(rc, err) == IF rc < 0 THEN Err(err) ELSE Ok(rc)

number_of_joysticks(t, out) ==
  /\ t \in tokens
  /\ Use("number_of_joysticks", <<>>, {}, out.rc, out.msg,
         number_of_joysticks_result(out.rc, out.msg))

\* SDLToken::joystick_is_game_controller: SDL_TRUE == SDL_IsGameController(index as i32)
joystick_is_game_controller(t, index, out) ==
  /\ t \in tokens
  /\ Use("joystick_is_game_controller", <<AsI32(index)>>, {}, out.val, out.msg,
         Plain(out.val = 1))

\* SDLToken::controller_name: SDL_GameControllerNameForIndex(index as i32) returns
\* null or a name; out.val is NULL or the name's text, valid UTF-8, which
\* gather_string returns as it is.
controller_name(t, index, out) ==
  /\ t \in tokens
  /\ Use("controller_name", <<AsI32(index)>>, {}, out.val, out.msg,
         IF out.val = NULL THEN None ELSE Some(out.val[2]))

\* Renderer::clear
clear(r, out) ==
  /\ KindOf(r) = "renderer"
  /\ Use("clear", <<>>, {r}, out.rc, out.msg, StatusCheck(out.rc, out.msg))

\* Renderer::copy: an absent rectangle is passed as a null pointer. The texture
\* is any live Texture: no check ties it to this renderer.
RectPtr(rect) == IF rect.tag = "Some" THEN rect.val ELSE NULL

copyOwnTexturesOnly(r, t, src, dst, out) ==
  /\ KindOf(r) = "renderer"
  /\ KindOf(t) = "texture"
  /\ Use("copy", <<RectPtr(src), RectPtr(dst)>>, {r, t}, out.rc, out.msg,
         IF parent[t] = r THEN StatusCheck(out.rc, out.msg) ELSE Err("foreign texture"))
copy(r, t, src, dst, out) ==
  /\ KindOf(r) = "renderer"
  /\ KindOf(t) = "texture"
  /\ Use("copy", <<RectPtr(src), RectPtr(dst)>>, {r, t}, out.rc, out.msg,
         StatusCheck(out.rc, out.msg))

\* Renderer::present
present(r) ==
  /\ KindOf(r) = "renderer"
  /\ Use("present", <<>>, {r}, 0, sdlError, Unit)

\* CDyLib::find_function: a null pointer is None.
find_function_result(p) == IF p = NULL THEN None ELSE Some(p)

find_function(lib, name, out) ==
  /\ KindOf(lib) = "cdylib"
  /\ Use("find_function", <<name>>, {lib}, out.ptr, out.msg, find_function_result(out.ptr))

\* ------------------------------------------------------- releasing handles

\* What every Drop does: the wrapper's life ends and the handle it holds goes
\* to the native destroy function. Given a handle that is not valid (destroyed
\* by SDL_Quit, or through another wrapper holding the same address) the
\* library destroys nothing and may leave an error behind or not.
Release(op, kind, h) ==
  /\ Idle
  /\ h \in alive
  /\ KindOf(h) = kind
  /\ NoBorrowers(h)
  /\ alive' = alive \ {h}
  /\ valid' = NativeDestroy(ptr[h])
  /\ within' = [a \in DOMAIN within |-> IF a \in NativeDestroy(ptr[h]) THEN within[a] ELSE NULL]
  /\ sdlError' \in IF ptr[h] \in valid THEN {sdlError} ELSE {sdlError} \cup ErrorTexts
  /\ ptr' = [ptr EXCEPT ![h] = NULL]
  /\ parent' = [parent EXCEPT ![h] = NoParent]
  /\ audio' = [audio EXCEPT ![h] = NoAudio]
  /\ call' = Call(op, <<ptr[h]>>, {h}, 0, Unit)
  /\ UNCHANGED <<sdlLive, tokens, contractBroken>>
  /\ UNCHANGED evVars
  /\ UNCHANGED pixVars
  /\ UNCHANGED kept

\* impl Drop for Window: SDL_DestroyWindow(self.ptr)
Window_drop(h) == Release("Window::drop", "window", h)
\* impl Drop for Renderer: SDL_DestroyRenderer(self.ptr)
Renderer_drop(h) == Release("Renderer::drop", "renderer", h)
\* impl Drop for Texture: SDL_DestroyTexture(self.ptr)
Texture_drop(h) == Release("Texture::drop", "texture", h)
\* impl Drop for CDyLib: SDL_UnloadObject(self.ptr)
CDyLib_drop(h) == Release("CDyLib::drop", "cdylib", h)
\* Surface, Controller and AudioQueue release their handle the same way.
Surface_drop(h) == Release("Surface::drop", "surface", h)
Controller_drop(h) == Release("Controller::drop", "controller", h)
AudioQueue_drop(h) == Release("AudioQueue::drop", "audio", h)

\* ------------------------------------------------------------------ events

SDL_QUIT == 256
SDL_WINDOWEVENT == 512
SDL_KEYDOWN == 768
SDL_KEYUP == 769
SDL_TEXTINPUT == 771
SDL_MOUSEMOTION == 1024
SDL_MOUSEBUTTONDOWN == 1025
SDL_MOUSEBUTTONUP == 1026
SDL_MOUSEWHEEL == 1027
SDL_JOYAXISMOTION == 1536
SDL_CONTROLLERAXISMOTION == 1616
SDL_CONTROLLERBUTTONDOWN == 1617
SDL_CONTROLLERBUTTONUP == 1618
SDL_CONTROLLERDEVICEADDED == 1619
SDL_CONTROLLERDEVICEREMOVED == 1620
SDL_USEREVENT == 32768

\* The event types with a variant of their own, and the variant of each.
ModeledTypes ==
  {SDL_QUIT, SDL_WINDOWEVENT, SDL_KEYDOWN, SDL_KEYUP, SDL_TEXTINPUT, SDL_MOUSEMOTION,
   SDL_MOUSEBUTTONDOWN, SDL_MOUSEBUTTONUP, SDL_MOUSEWHEEL, SDL_CONTROLLERAXISMOTION,
   SDL_CONTROLLERBUTTONDOWN, SDL_CONTROLLERBUTTONUP, SDL_CONTROLLERDEVICEADDED,
   SDL_CONTROLLERDEVICEREMOVED}

VariantOf(type) ==
  CASE type = SDL_QUIT -> "Quit"
    [] type = SDL_WINDOWEVENT -> "Window"
    [] type \in {SDL_KEYDOWN, SDL_KEYUP} -> "Keyboard"
    [] type = SDL_TEXTINPUT -> "TextInput"
    [] type = SDL_MOUSEMOTION -> "MouseMotion"
    [] type \in {SDL_MOUSEBUTTONDOWN, SDL_MOUSEBUTTONUP} -> "MouseButton"
    [] type = SDL_MOUSEWHEEL -> "MouseWheel"
    [] type = SDL_CONTROLLERAXISMOTION -> "ControllerAxis"
    [] type \in {SDL_CONTROLLERBUTTONDOWN, SDL_CONTROLLERBUTTONUP} -> "ControllerButton"
    [] type = SDL_CONTROLLERDEVICEADDED -> "ControllerDeviceAdded"
    [] type = SDL_CONTROLLERDEVICEREMOVED -> "ControllerDeviceRemoved"
    [] OTHER -> "Unknown"

\* Event::from(SDL_Event): dispatch on the discriminant; the payload is read
\* only for a modeled type; any other type is Unknown with the raw discriminant.
EventFrom(rec) ==
  IF rec.type = SDL_QUIT THEN [variant |-> "Quit", type |-> rec.type, payload |-> 0]
  ELSE IF rec.type \in ModeledTypes
    THEN [variant |-> VariantOf(rec.type), type |-> rec.type, payload |-> rec.payload]
    ELSE [variant |-> "Unknown", type |-> rec.type, payload |-> 0]

\* SDL_Event::default(): a zeroed record.
DefaultEvent == [type |-> 0, payload |-> 0]

\* The records the environment posts.
PostedRecords ==
  {[type |-> SDL_QUIT, payload |-> 0],
   [type |-> SDL_KEYDOWN, payload |-> 1],
   [type |-> SDL_KEYDOWN, payload |-> 2],
   [type |-> SDL_JOYAXISMOTION, payload |-> 1],
   [type |-> SDL_USEREVENT, payload |-> 0]}

\* The environment (the operating system, other SDL calls) posts a record.
NativePost(rec) ==
  /\ sdlLive
  /\ Len(queue) < MaxQueue
  /\ Len(pushed) < MaxEvents
  /\ queue' = Append(queue, rec)
  /\ pushed' = Append(pushed, rec)
  /\ UNCHANGED polled
  /\ UNCHANGED resVars
  /\ UNCHANGED pixVars
  /\ UNCHANGED kept

\* SDL_PollEvent(&mut event): 1 and the head record copied out when there is
\* one, 0 and the record untouched otherwise.
SDL_PollEvent(q, event) ==
  IF q = <<>> THEN [rc |-> 0, event |-> event, rest |-> q]
  ELSE [rc |-> 1, event |-> Head(q), rest |-> Tail(q)]

\* SDLToken::poll_event
poll_event_resultDropping(rc, event) == IF rc = 0 THEN Some(EventFrom(event)) ELSE None
poll_event_resultQuitIsNone(rc, event) ==
  IF rc = 1 /\ event.type # SDL_QUIT THEN Some(EventFrom(event)) ELSE None
poll_event_result(rc, event) == IF rc = 1 THEN Some(EventFrom(event)) ELSE None

poll_event(t) ==
  /\ Idle
  /\ t \in tokens
  /\ LET p == SDL_PollEvent(queue, DefaultEvent)
         r == poll_event_result(p.rc, p.event)
     IN /\ queue' = p.rest
        /\ polled' = IF r.tag = "Some" THEN Append(polled, r.val) ELSE polled
        /\ call' = Call("poll_event", <<>>, {}, p.rc, r)
  /\ UNCHANGED pushed
  /\ UNCHANGED <<sdlLive, sdlError, valid, within, tokens, alive, ptr, parent, audio,
                 contractBroken>>
  /\ UNCHANGED pixVars
  /\ UNCHANGED kept

\* ----------------------------------------------------------- pixel formats

\* Shifts and masks on an unsigned 32-bit value.
Shr(x, n) == x \div (2 ^ n)
Nibble(x, n) == Shr(x, n) % 16
Byte(x, n) == Shr(x, n) % 256

SDL_PIXELTYPE_UNKNOWN == 0
SDL_PIXELTYPE_INDEX1 == 1
SDL_PIXELTYPE_INDEX4 == 2
SDL_PIXELTYPE_INDEX8 == 3
SDL_PIXELTYPE_PACKED8 == 4
SDL_PIXELTYPE_PACKED16 == 5
SDL_PIXELTYPE_PACKED32 == 6
SDL_PIXELTYPE_ARRAYU8 == 7
SDL_PIXELTYPE_ARRAYU16 == 8
SDL_PIXELTYPE_ARRAYU32 == 9
SDL_PIXELTYPE_ARRAYF16 == 10
SDL_PIXELTYPE_ARRAYF32 == 11

SDL_BITMAPORDER_NONE == 0
SDL_BITMAPORDER_4321 == 1
SDL_BITMAPORDER_1234 == 2

SDL_PACKEDORDER_NONE == 0
SDL_PACKEDORDER_XRGB == 1
SDL_PACKEDORDER_RGBX == 2
SDL_PACKEDORDER_ARGB == 3
SDL_PACKEDORDER_RGBA == 4
SDL_PACKEDORDER_XBGR == 5
SDL_PACKEDORDER_BGRX == 6
SDL_PACKEDORDER_ABGR == 7
SDL_PACKEDORDER_BGRA == 8

SDL_ARRAYORDER_NONE == 0
SDL_ARRAYORDER_RGB == 1
SDL_ARRAYORDER_RGBA == 2
SDL_ARRAYORDER_ARGB == 3
SDL_ARRAYORDER_BGR == 4
SDL_ARRAYORDER_BGRA == 5
SDL_ARRAYORDER_ABGR == 6

SDL_PACKEDLAYOUT_NONE == 0
SDL_PACKEDLAYOUT_332 == 1
SDL_PACKEDLAYOUT_4444 == 2
SDL_PACKEDLAYOUT_1555 == 3
SDL_PACKEDLAYOUT_5551 == 4
SDL_PACKEDLAYOUT_565 == 5
SDL_PACKEDLAYOUT_8888 == 6
SDL_PACKEDLAYOUT_2101010 == 7
SDL_PACKEDLAYOUT_1010102 == 8

\* The native numbering of the format codes the enum's variants are bound to:
\* a bit-packed code is 1 in bits 28-31, then type, order, layout, bits, bytes;
\* a fourcc code is four characters, the first in the low byte.
SDL_DEFINE_PIXELFORMAT(type, order, layout, bits, bytes) ==
  (2 ^ 28) + type * (2 ^ 24) + order * (2 ^ 20) + layout * (2 ^ 16) + bits * (2 ^ 8) + bytes

SDL_FOURCC(a, b, c, d) == a + b * (2 ^ 8) + c * (2 ^ 16) + d * (2 ^ 24)

SDL_PIXELFORMAT_UNKNOWN == 0
\* type INDEX1, order 4321, layout NONE, 1 bits, 0 bytes
SDL_PIXELFORMAT_INDEX1LSB == 286261504
\* type INDEX1, order 1234, layout NONE, 1 bits, 0 bytes
SDL_PIXELFORMAT_INDEX1MSB == 287310080
\* type INDEX4, order 4321, layout NONE, 4 bits, 0 bytes
SDL_PIXELFORMAT_INDEX4LSB == 303039488
\* type INDEX4, order 1234, layout NONE, 4 bits, 0 bytes
SDL_PIXELFORMAT_INDEX4MSB == 304088064
\* type INDEX8, order NONE, layout NONE, 8 bits, 1 bytes
SDL_PIXELFORMAT_INDEX8 == 318769153
\* type PACKED8, order XRGB, layout 332, 8 bits, 1 bytes
SDL_PIXELFORMAT_RGB332 == 336660481
\* type PACKED16, order XRGB, layout 4444, 12 bits, 2 bytes
SDL_PIXELFORMAT_RGB444 == 353504258
\* type PACKED16, order XRGB, layout 1555, 15 bits, 2 bytes
SDL_PIXELFORMAT_RGB555 == 353570562
\* type PACKED16, order XBGR, layout 1555, 15 bits, 2 bytes
SDL_PIXELFORMAT_BGR555 == 357764866
\* type PACKED16, order ARGB, layout 4444, 16 bits, 2 bytes
SDL_PIXELFORMAT_ARGB4444 == 355602434
\* type PACKED16, order RGBA, layout 4444, 16 bits, 2 bytes
SDL_PIXELFORMAT_RGBA4444 == 356651010
\* type PACKED16, order ABGR, layout 4444, 16 bits, 2 bytes
SDL_PIXELFORMAT_ABGR4444 == 359796738
\* type PACKED16, order BGRA, layout 4444, 16 bits, 2 bytes
SDL_PIXELFORMAT_BGRA4444 == 360845314
\* type PACKED16, order ARGB, layout 1555, 16 bits, 2 bytes
SDL_PIXELFORMAT_ARGB1555 == 355667970
\* type PACKED16, order RGBA, layout 5551, 16 bits, 2 bytes
SDL_PIXELFORMAT_RGBA5551 == 356782082
\* type PACKED16, order ABGR, layout 1555, 16 bits, 2 bytes
SDL_PIXELFORMAT_ABGR1555 == 359862274
\* type PACKED16, order BGRA, layout 5551, 16 bits, 2 bytes
SDL_PIXELFORMAT_BGRA5551 == 360976386
\* type PACKED16, order XRGB, layout 565, 16 bits, 2 bytes
SDL_PIXELFORMAT_RGB565 == 353701890
\* type PACKED16, order XBGR, layout 565, 16 bits, 2 bytes
SDL_PIXELFORMAT_BGR565 == 357896194
\* type ARRAYU8, order RGB, layout NONE, 24 bits, 3 bytes
SDL_PIXELFORMAT_RGB24 == 386930691
\* type ARRAYU8, order BGR, layout NONE, 24 bits, 3 bytes
SDL_PIXELFORMAT_BGR24 == 390076419
\* type PACKED32, order XRGB, layout 8888, 24 bits, 4 bytes
SDL_PIXELFORMAT_RGB888 == 370546692
\* type PACKED32, order RGBX, layout 8888, 24 bits, 4 bytes
SDL_PIXELFORMAT_RGBX8888 == 371595268
\* type PACKED32, order XBGR, layout 8888, 24 bits, 4 bytes
SDL_PIXELFORMAT_BGR888 == 374740996
\* type PACKED32, order BGRX, layout 8888, 24 bits, 4 bytes
SDL_PIXELFORMAT_BGRX8888 == 375789572
\* type PACKED32, order ARGB, layout 8888, 32 bits, 4 bytes
SDL_PIXELFORMAT_ARGB8888 == 372645892
\* type PACKED32, order RGBA, layout 8888, 32 bits, 4 bytes
SDL_PIXELFORMAT_RGBA8888 == 373694468
\* type PACKED32, order ABGR, layout 8888, 32 bits, 4 bytes
SDL_PIXELFORMAT_ABGR8888 == 376840196
\* type PACKED32, order BGRA, layout 8888, 32 bits, 4 bytes
SDL_PIXELFORMAT_BGRA8888 == 377888772
\* type PACKED32, order ARGB, layout 2101010, 32 bits, 4 bytes
SDL_PIXELFORMAT_ARGB2101010 == 372711428
\* 'Y', 'V', '1', '2'
SDL_PIXELFORMAT_YV12 == 842094169
\* 'I', 'Y', 'U', 'V'
SDL_PIXELFORMAT_IYUV == 1448433993
\* 'Y', 'U', 'Y', '2'
SDL_PIXELFORMAT_YUY2 == 844715353
\* 'U', 'Y', 'V', 'Y'
SDL_PIXELFORMAT_UYVY == 1498831189
\* 'Y', 'V', 'Y', 'U'
SDL_PIXELFORMAT_YVYU == 1431918169
\* 'N', 'V', '1', '2'
SDL_PIXELFORMAT_NV12 == 842094158
\* 'N', 'V', '2', '1'
SDL_PIXELFORMAT_NV21 == 825382478
\* 'O', 'E', 'S', ' '
SDL_PIXELFORMAT_EXTERNAL_OES == 542328143

\* The codes the conversion from a native code matches, each to the variant
\* bound to that code.
MatchedFormats ==
  {SDL_PIXELFORMAT_INDEX1LSB, SDL_PIXELFORMAT_INDEX1MSB, SDL_PIXELFORMAT_INDEX4LSB,
   SDL_PIXELFORMAT_INDEX4MSB, SDL_PIXELFORMAT_INDEX8, SDL_PIXELFORMAT_RGB332,
   SDL_PIXELFORMAT_RGB444, SDL_PIXELFORMAT_RGB555, SDL_PIXELFORMAT_BGR555,
   SDL_PIXELFORMAT_ARGB4444, SDL_PIXELFORMAT_RGBA4444, SDL_PIXELFORMAT_ABGR4444,
   SDL_PIXELFORMAT_BGRA4444, SDL_PIXELFORMAT_ARGB1555, SDL_PIXELFORMAT_RGBA5551,
   SDL_PIXELFORMAT_ABGR1555, SDL_PIXELFORMAT_BGRA5551, SDL_PIXELFORMAT_RGB565,
   SDL_PIXELFORMAT_BGR565, SDL_PIXELFORMAT_RGB24, SDL_PIXELFORMAT_BGR24,
   SDL_PIXELFORMAT_RGB888, SDL_PIXELFORMAT_RGBX8888, SDL_PIXELFORMAT_BGR888,
   SDL_PIXELFORMAT_BGRX8888, SDL_PIXELFORMAT_ARGB8888, SDL_PIXELFORMAT_RGBA8888,
   SDL_PIXELFORMAT_ABGR8888, SDL_PIXELFORMAT_BGRA8888, SDL_PIXELFORMAT_ARGB2101010,
   SDL_PIXELFORMAT_YV12, SDL_PIXELFORMAT_IYUV, SDL_PIXELFORMAT_YUY2,
   SDL_PIXELFORMAT_UYVY, SDL_PIXELFORMAT_YVYU, SDL_PIXELFORMAT_NV12,
   SDL_PIXELFORMAT_NV21, SDL_PIXELFORMAT_EXTERNAL_OES}

\* Every value a PixelFormatEnum can have, as its discriminant.
PixelFormatEnum == MatchedFormats \cup {SDL_PIXELFORMAT_UNKNOWN}

\* impl From<_bindgen_ty_6::Type> for PixelFormatEnum
PixelFormatFromUnmatched(pf) == pf
PixelFormatFrom(pf) == IF pf \in MatchedFormats THEN pf ELSE SDL_PIXELFORMAT_UNKNOWN

\* PixelFormatEnum::is_fourcc
is_fourccBit24(f) == (f > 0) /\ (Nibble(f, 24) # 1)
is_fourcc(f) == (f > 0) /\ (Nibble(f, 28) # 1)

\* PixelFormatEnum::pixel_type
pixel_type(f) ==
  LET n == Nibble(f, 24) IN
  CASE n = SDL_PIXELTYPE_INDEX1 -> "Index1"
    [] n = SDL_PIXELTYPE_INDEX4 -> "Index4"
    [] n = SDL_PIXELTYPE_INDEX8 -> "Index8"
    [] n = SDL_PIXELTYPE_PACKED8 -> "Packed8"
    [] n = SDL_PIXELTYPE_PACKED16 -> "Packed16"
    [] n = SDL_PIXELTYPE_PACKED32 -> "Packed32"
    [] n = SDL_PIXELTYPE_ARRAYU8 -> "ArrayU8"
    [] n = SDL_PIXELTYPE_ARRAYU16 -> "ArrayU16"
    [] n = SDL_PIXELTYPE_ARRAYU32 -> "ArrayU32"
    [] n = SDL_PIXELTYPE_ARRAYF16 -> "ArrayF16"
    [] n = SDL_PIXELTYPE_ARRAYF32 -> "ArrayF32"
    [] OTHER -> "Unknown"

\* PixelFormatEnum::is_indexed
is_indexedUnguarded(f) == pixel_type(f) \in {"Index1", "Index4", "Index8"}
is_indexed(f) == ~is_fourcc(f) /\ pixel_type(f) \in {"Index1", "Index4", "Index8"}

\* PixelFormatEnum::is_packed
is_packedPacked8Missing(f) == ~is_fourcc(f) /\ pixel_type(f) \in {"Packed16", "Packed32"}
is_packed(f) == ~is_fourcc(f) /\ pixel_type(f) \in {"Packed8", "Packed16", "Packed32"}

\* PixelFormatEnum::is_array
is_array(f) ==
  ~is_fourcc(f)
  /\ pixel_type(f) \in {"ArrayU8", "ArrayU16", "ArrayU32", "ArrayF16", "ArrayF32"}

\* PixelFormatEnum::pixel_order
pixel_order(f) ==
  LET bits == Nibble(f, 20) IN
  IF is_packed(f) THEN
    CASE bits = SDL_PACKEDORDER_ABGR -> <<"Packed", "ABGR">>
      [] bits = SDL_PACKEDORDER_ARGB -> <<"Packed", "ARGB">>
      [] bits = SDL_PACKEDORDER_BGRA -> <<"Packed", "BGRA">>
      [] bits = SDL_PACKEDORDER_BGRX -> <<"Packed", "BGRX">>
      [] bits = SDL_PACKEDORDER_RGBA -> <<"Packed", "RGBA">>
      [] bits = SDL_PACKEDORDER_RGBX -> <<"Packed", "RGBX">>
      [] bits = SDL_PACKEDORDER_XBGR -> <<"Packed", "XBGR">>
      [] bits = SDL_PACKEDORDER_XRGB -> <<"Packed", "XRGB">>
      [] OTHER -> <<"Packed", "None">>
  ELSE IF is_array(f) THEN
    CASE bits = SDL_ARRAYORDER_ABGR -> <<"Array", "ABGR">>
      [] bits = SDL_ARRAYORDER_ARGB -> <<"Array", "ARGB">>
      [] bits = SDL_ARRAYORDER_BGR -> <<"Array", "BGR">>
      [] bits = SDL_ARRAYORDER_BGRA -> <<"Array", "BGRA">>
      [] bits = SDL_ARRAYORDER_RGB -> <<"Array", "RGB">>
      [] bits = SDL_ARRAYORDER_RGBA -> <<"Array", "RGBA">>
      [] OTHER -> <<"Array", "None">>
  ELSE
    CASE bits = SDL_BITMAPORDER_1234 -> <<"Bitmap", "_1234">>
      [] bits = SDL_BITMAPORDER_4321 -> <<"Bitmap", "_4321">>
      [] OTHER -> <<"Bitmap", "None">>

\* PixelFormatEnum::pixel_layout
pixel_layout(f) ==
  LET n == Nibble(f, 16) IN
  CASE n = SDL_PACKEDLAYOUT_332 -> "_332"
    [] n = SDL_PACKEDLAYOUT_4444 -> "_4444"
    [] n = SDL_PACKEDLAYOUT_1555 -> "_1555"
    [] n = SDL_PACKEDLAYOUT_5551 -> "_5551"
    [] n = SDL_PACKEDLAYOUT_565 -> "_565"
    [] n = SDL_PACKEDLAYOUT_8888 -> "_8888"
    [] n = SDL_PACKEDLAYOUT_2101010 -> "_2101010"
    [] n = SDL_PACKEDLAYOUT_1010102 -> "_1010102"
    [] OTHER -> "None"

\* PixelFormatEnum::bits_per_pixel
bits_per_pixelLowByte(f) == Byte(f, 0)
bits_per_pixel(f) == Byte(f, 8)

\* PixelFormatEnum::bytes_per_pixel
bytes_per_pixelNoFourcc(f) == Byte(f, 8) \div 8
bytes_per_pixel(f) ==
  IF is_fourcc(f) THEN
    IF f \in {SDL_PIXELFORMAT_YUY2, SDL_PIXELFORMAT_UYVY, SDL_PIXELFORMAT_YVYU} THEN 2 ELSE 1
  ELSE Byte(f, 0)

\* PixelFormatEnum::is_alpha
is_alphaByOrderBits(f) ==
  Nibble(f, 20) \in {SDL_PACKEDORDER_ARGB, SDL_PACKEDORDER_RGBA, SDL_PACKEDORDER_ABGR,
                     SDL_PACKEDORDER_BGRA}
is_alpha(f) ==
  pixel_order(f) \in {<<"Packed", "ARGB">>, <<"Packed", "RGBA">>, <<"Packed", "ABGR">>,
                      <<"Packed", "BGRA">>, <<"Array", "ARGB">>, <<"Array", "RGBA">>,
                      <<"Array", "ABGR">>, <<"Array", "BGRA">>}

\* Every accessor applied to one format.
Decode(f) ==
  [pixel_type |-> pixel_type(f), pixel_order |-> pixel_order(f),
   pixel_layout |-> pixel_layout(f), bits_per_pixel |-> bits_per_pixel(f),
   bytes_per_pixel |-> bytes_per_pixel(f), is_indexed |-> is_indexed(f),
   is_packed |-> is_packed(f), is_array |-> is_array(f), is_alpha |-> is_alpha(f),
   is_fourcc |-> is_fourcc(f)]

\* Codes the native library may report that no variant is bound to.
UnnamedCodes ==
  {1, SDL_PIXELFORMAT_RGBA8888 + 1,
   SDL_DEFINE_PIXELFORMAT(SDL_PIXELTYPE_PACKED32, SDL_PACKEDORDER_RGBA,
                          SDL_PACKEDLAYOUT_1010102, 32, 4),
   SDL_FOURCC(80, 48, 49, 48), 2147483647}

RawCodes == PixelFormatEnum \cup UnnamedCodes

NoFormat == 0 - 1
NoDecode == [pixel_type |-> "none"]

\* The native library reports a format code (SDL_DisplayMode.format).
NativeFormat(code) ==
  /\ raw' = code
  /\ fmt' = NoFormat
  /\ dec' = NoDecode
  /\ UNCHANGED kept
  /\ UNCHANGED resVars
  /\ UNCHANGED evVars

\* PixelFormatEnum::from(code)
ConvertFormat ==
  /\ fmt = NoFormat
  /\ fmt' = PixelFormatFrom(raw)
  /\ UNCHANGED <<raw, dec>>
  /\ UNCHANGED kept
  /\ UNCHANGED resVars
  /\ UNCHANGED evVars

\* The accessors are called on the value.
DecodeFormat ==
  /\ fmt # NoFormat
  /\ dec = NoDecode
  /\ dec' = Decode(fmt)
  /\ UNCHANGED <<raw, fmt>>
  /\ UNCHANGED kept
  /\ UNCHANGED resVars
  /\ UNCHANGED evVars

\* ------------------------------------------------------------ display modes

\* A DisplayMode (format, width, height, refresh_rate, driver_data) and the
\* native SDL_DisplayMode (format, w, h, refresh_rate, driverdata).
NoMode == [format |-> NoFormat]

\* impl From<SDL_DisplayMode> for DisplayMode
DisplayModeFromNullDriverData(sdl_mode) ==
  [format |-> PixelFormatFrom(sdl_mode.format), width |-> sdl_mode.w,
   height |-> sdl_mode.h, refresh_rate |-> sdl_mode.refresh_rate, driver_data |-> NULL]
DisplayModeFrom(sdl_mode) ==
  [format |-> PixelFormatFrom(sdl_mode.format), width |-> sdl_mode.w,
   height |-> sdl_mode.h, refresh_rate |-> sdl_mode.refresh_rate,
   driver_data |-> sdl_mode.driverdata]

\* impl From<DisplayMode> for SDL_DisplayMode: format is the variant's discriminant.
SDL_DisplayModeFromSwapped(mode) ==
  [format |-> mode.format, w |-> mode.height, h |-> mode.width,
   refresh_rate |-> mode.refresh_rate, driverdata |-> mode.driver_data]
SDL_DisplayModeFrom(mode) ==
  [format |-> mode.format, w |-> mode.width, h |-> mode.height,
   refresh_rate |-> mode.refresh_rate, driverdata |-> mode.driver_data]

\* DisplayMode::new
DisplayMode_new(format, width, height, refresh_rate) ==
  [format |-> format, width |-> width, height |-> height,
   refresh_rate |-> refresh_rate, driver_data |-> NULL]

\* SDL_DisplayMode::default(): a zeroed record.
DefaultDisplayMode ==
  [format |-> 0, w |-> 0, h |-> 0, refresh_rate |-> 0, driverdata |-> NULL]

\* The modes the library may report: a format bound to a variant, the unknown
\* format, a format bound to no variant; with and without driver data.
NativeModes ==
  {[format |-> f, w |-> 800, h |-> 600, refresh_rate |-> 60, driverdata |-> d] :
     f \in {SDL_PIXELFORMAT_RGB888, SDL_PIXELFORMAT_UNKNOWN,
            SDL_DEFINE_PIXELFORMAT(SDL_PIXELTYPE_PACKED32, SDL_PACKEDORDER_RGBA,
                                   SDL_PACKEDLAYOUT_1010102, 32, 4)},
     d \in {NULL, <<"driverdata", 1>>}}

\* SDL_GetWindowDisplayMode fills the record in and returns 0, or returns a
\* negative code and writes an error.
ModeOutcomes ==
  {[rc |-> 0, msg |-> sdlError, mode |-> m] : m \in NativeModes}
  \cup {[rc |-> -1, msg |-> m, mode |-> DefaultDisplayMode] : m \in ErrorTexts}

\* Window::display_mode. The record the native call filled in is kept in the
\* call record; the caller keeps the DisplayMode returned.
display_mode_result(rc, mode, err) == IF rc = 0 THEN Ok(DisplayModeFrom(mode)) ELSE Err(err)

display_mode(w, out) ==
  /\ KindOf(w) = "window"
  /\ Idle
  /\ Usable({w})
  /\ sdlError' = out.msg
  /\ LET r == display_mode_result(out.rc, out.mode, out.msg) IN
       /\ call' = Call("display_mode", <<out.mode>>, {w}, out.rc, r)
       /\ kept' = IF r.tag = "Ok" THEN r.val ELSE kept
  /\ UNCHANGED <<sdlLive, valid, within, tokens, alive, ptr, parent, audio, contractBroken>>
  /\ UNCHANGED evVars
  /\ UNCHANGED pixVars

\* Window::set_display_mode: Some(mode) is converted and passed by reference,
\* None is passed as a null pointer.
NullMode == [null |-> TRUE]

ModePtr(opt_mode) ==
  IF opt_mode.tag = "Some" THEN SDL_DisplayModeFrom(opt_mode.val) ELSE NullMode

set_display_mode(w, opt_mode, out) ==
  /\ KindOf(w) = "window"
  /\ Use("set_display_mode", <<ModePtr(opt_mode)>>, {w}, out.rc, out.msg,
         StatusCheck(out.rc, out.msg))

\* ---------------------------------------------------------- specifications

InitRes ==
  /\ sdlLive = FALSE
  /\ sdlError = ""
  /\ valid = {}
  /\ tokens = {}
  /\ within = [h \in Handles \cup {NULL} |-> NULL]
  /\ alive = {}
  /\ ptr = [h \in Handles \cup {NULL} |-> NULL]
  /\ parent = [h \in Handles \cup {NULL} |-> NoParent]
  /\ audio = [h \in Handles \cup {NULL} |-> NoAudio]
  /\ call = NoCall
  /\ contractBroken = FALSE

InitEv ==
  /\ queue = <<>>
  /\ pushed = <<>>
  /\ polled = <<>>

InitPix ==
  /\ raw = SDL_PIXELFORMAT_UNKNOWN
  /\ fmt = NoFormat
  /\ dec = NoDecode
  /\ kept = NoMode

Init == InitRes /\ InitEv /\ InitPix

DriverIndexes == {None, Some(<<0, 0>>), Some(<<1, 2147483647>>)}
RendererFlagSets == {0}
Rects == {None, Some(<<"rect", 1>>)}
AudioRequests ==
  {[frequency |-> 44100, format |-> AUDIO_S16LSB, channels |-> 2, samples |-> 4096,
    allow_frequency_change |-> f[1], allow_format_change |-> f[2],
    allow_channels_change |-> f[3]] :
     f \in {<<FALSE, TRUE, FALSE>>, <<FALSE, FALSE, FALSE>>, <<TRUE, FALSE, TRUE>>}}

\* init() under its safety contract: never while a token is alive.
InitOnce == tokens = {} /\ \E out \in StatusOutcomes : init(out)
\* init() called although a token is alive.
InitAgain == tokens # {} /\ \E out \in StatusOutcomes : init(out)

DropToken == \E t \in TokenIds : SDLToken_drop(t)

CreateWindow ==
  \E t \in TokenIds, title \in Titles, x \in Positions, y \in Positions,
     w \in Widths, h \in Heights, flags \in WindowFlagSets,
     out \in PtrOutcomes("window") :
    create_window(t, title, x, y, w, h, flags, out)

CreateSurface ==
  \E t \in TokenIds, format \in SurfaceFormats, out \in PtrOutcomes("surface") :
    create_rgb_surface(t, 64, 64, format, out)

\* Joystick indexes (u32): 0, 2^31 and 2^32 - 1.
ControllerIndexes == {<<0, 0>>, <<1, 0>>, <<1, 2147483647>>}

OpenController ==
  \E t \in TokenIds, index \in ControllerIndexes, out \in PtrOutcomes("controller") :
    open_controller(t, index, out)

LoneMessageBox ==
  \E box_type \in MessageBoxes, out \in StatusOutcomes :
    lone_message_box(box_type, "title", "message", out)

ModalMessageBox ==
  \E w \in OfKind("window"), box_type \in MessageBoxes, out \in StatusOutcomes :
    modal_message_box(w, box_type, "title", "message", out)

NumberOfJoysticks == \E t \in TokenIds, out \in CountOutcomes : number_of_joysticks(t, out)

LoadCDyLib ==
  \E t \in TokenIds, out \in PtrOutcomes("cdylib") : load_cdylib(t, "lib", out)

OpenAudioQueue ==
  \E t \in TokenIds, request \in AudioRequests :
    \E out \in AudioOutcomes(request) : open_default_audio_queue(t, request, out)

CreateRenderer ==
  \E w \in OfKind("window"), i \in DriverIndexes, flags \in RendererFlagSets,
     out \in PtrOutcomes("renderer") :
    create_renderer(w, i, flags, out)

CreateTexture ==
  \E r \in OfKind("renderer"), surf \in OfKind("surface"), out \in PtrOutcomes("texture") :
    create_texture_from_surface(r, surf, out)

SetFullscreenStyle ==
  \E w \in OfKind("window"), style \in FullscreenStyles, out \in StatusOutcomes :
    set_fullscreen_style(w, style, out)

Clear == \E r \in OfKind("renderer"), out \in StatusOutcomes : clear(r, out)

Copy ==
  \E r \in OfKind("renderer"), t \in OfKind("texture"), src \in Rects, dst \in Rects,
     out \in StatusOutcomes :
    copy(r, t, src, dst, out)

Present == \E r \in OfKind("renderer") : present(r)

\* SDL_LoadFunction returns the function's address, or null and an error.
FunctionOutcomes ==
  {[ptr |-> <<"fn", 1>>, msg |-> sdlError]} \cup {[ptr |-> NULL, msg |-> m] : m \in ErrorTexts}

FindFunction ==
  \E lib \in OfKind("cdylib"), out \in FunctionOutcomes : find_function(lib, "f", out)

PollEvent == \E t \in TokenIds : poll_event(t)

Post == \E rec \in PostedRecords : NativePost(rec)

DropWindow == \E h \in OfKind("window") : Window_drop(h)
DropRenderer == \E h \in OfKind("renderer") : Renderer_drop(h)
DropTexture == \E h \in OfKind("texture") : Texture_drop(h)
DropCDyLib == \E h \in OfKind("cdylib") : CDyLib_drop(h)
DropSurface == \E h \in OfKind("surface") : Surface_drop(h)
DropController == \E h \in OfKind("controller") : Controller_drop(h)
DropAudioQueue == \E h \in OfKind("audio") : AudioQueue_drop(h)

\* The ownership hierarchy, used as init()'s safety contract requires.
Next ==
  \/ InitOnce
  \/ DropToken
  \/ CreateWindow
  \/ CreateSurface
  \/ LoadCDyLib
  \/ CreateRenderer
  \/ CreateTexture
  \/ SetFullscreenStyle
  \/ LoneMessageBox
  \/ ModalMessageBox
  \/ \E w \in OfKind("window"), out \in QueryOutcomes({<<0, 0>>, <<800, 600>>}) : size(w, out)
  \/ \E w \in OfKind("window"), width \in Widths, out \in QueryOutcomes({0}) :
       set_size(w, width, 0 - 1, out)
  \/ Clear
  \/ Copy
  \/ Present
  \/ FindFunction
  \/ PollEvent
  \/ DropWindow
  \/ DropRenderer
  \/ DropTexture
  \/ DropCDyLib
  \/ DropSurface
  \/ Return

Spec == Init /\ [][Next]_vars

\* The devices opened under the token.
NextDevices ==
  \/ InitOnce
  \/ DropToken
  \/ OpenController
  \/ NumberOfJoysticks
  \/ \E t \in TokenIds, index \in ControllerIndexes, out \in QueryOutcomes({0, 1}) :
       joystick_is_game_controller(t, index, out)
  \/ \E t \in TokenIds, index \in ControllerIndexes,
        out \in QueryOutcomes({NULL, <<"name", "pad">>}) :
       controller_name(t, index, out)
  \/ OpenAudioQueue
  \/ DropController
  \/ DropAudioQueue
  \/ Return

SpecDevices == Init /\ [][NextDevices]_vars

\* The token and its windows, with init() also called while a token is alive.
NextDoubleInit ==
  \/ InitOnce
  \/ InitAgain
  \/ DropToken
  \/ CreateWindow
  \/ DropWindow
  \/ Return

SpecDoubleInit == Init /\ [][NextDoubleInit]_vars

\* The event pump.
NextEvents ==
  \/ InitOnce
  \/ DropToken
  \/ Post
  \/ PollEvent
  \/ Return

SpecEvents == Init /\ [][NextEvents]_vars

\* The caller builds a DisplayMode of its own.
NewDisplayMode ==
  /\ Idle
  /\ \E format \in {SDL_PIXELFORMAT_RGB888, SDL_PIXELFORMAT_UNKNOWN}, width \in {640} :
       kept' = DisplayMode_new(format, width, 480, 0)
  /\ UNCHANGED resVars
  /\ UNCHANGED evVars
  /\ UNCHANGED pixVars

GetDisplayMode == \E w \in OfKind("window"), out \in ModeOutcomes : display_mode(w, out)

\* The caller passes no mode, or the mode it holds.
SetDisplayMode ==
  \E w \in OfKind("window"), out \in StatusOutcomes,
     opt_mode \in {None} \cup {Some(m) : m \in {kept} \ {NoMode}} :
    set_display_mode(w, opt_mode, out)

\* A window's display mode, read and set.
NextDisplay ==
  \/ InitOnce
  \/ DropToken
  \/ CreateWindow
  \/ DropWindow
  \/ NewDisplayMode
  \/ GetDisplayMode
  \/ SetDisplayMode
  \/ Return

SpecDisplay == Init /\ [][NextDisplay]_vars

\* The audio queue opened with a request that allows no change, when the
\* library fails or opens the device as requested.
OpenAudioQueueExact ==
  \E t \in TokenIds,
     request \in {q \in AudioRequests : Changes(q) = 0} :
    \E out \in {o \in AudioOutcomes(request) :
                  \/ o.ptr = NULL
                  \/ /\ o.obtained.freq = request.frequency
                     /\ o.obtained.format = request.format
                     /\ o.obtained.channels = request.channels} :
      open_default_audio_queue(t, request, out)

\* Every fallible operation of the layer, on resources that are kept alive.
NextFallible ==
  \/ InitOnce
  \/ LoneMessageBox
  \/ ModalMessageBox
  \/ NumberOfJoysticks
  \/ CreateWindow
  \/ CreateSurface
  \/ OpenController
  \/ LoadCDyLib
  \/ OpenAudioQueueExact
  \/ CreateRenderer
  \/ CreateTexture
  \/ GetDisplayMode
  \/ SetDisplayMode
  \/ SetFullscreenStyle
  \/ Clear
  \/ Copy
  \/ Return

SpecFallible == Init /\ [][NextFallible]_vars

\* The pixel format decoder, on every code the library may report.
NextPixel ==
  \/ \E code \in RawCodes : NativeFormat(code)
  \/ ConvertFormat
  \/ DecodeFormat

SpecPixel == Init /\ [][NextPixel]_vars

\* -------------------------------------------------------------- properties

\* The wrapper values of a kind that are alive.
Live(kind) == {h \in alive : KindOf(h) = kind}

DropOps ==
  {"Window::drop", "Renderer::drop", "Texture::drop", "CDyLib::drop", "Surface::drop",
   "Controller::drop", "AudioQueue::drop"}

\* A step in which operation op is called.
Calls(op) == call = NoCall /\ call'.op = op

\* C1: at most one token exists at any time: an init() call made while a token
\* is alive produces no second token and returns the error "already initialized".
C1_SecondInitRefused ==
  [][/\ Cardinality(tokens') <= 1
     /\ (Calls("init") /\ tokens # {}) =>
          (tokens' = tokens /\ call'.ret = Err("already initialized"))]_vars

\* C2: tree-ordered teardown: no wrapper and no token is dropped while a value
\* derived from it is alive, SDL_Quit runs only when no resource is alive, and
\* every live resource's owner is alive: a Texture's a Renderer, a Renderer's a
\* Window, any other resource's the token.
C2_TreeOrderedTeardown ==
  [][/\ \A x \in (alive \ alive') \cup (tokens \ tokens') : \A c \in alive : parent[c] # x
     /\ (sdlLive /\ ~sdlLive') => alive = {}
     /\ \A h \in alive' :
          /\ parent'[h] \in alive' \cup tokens'
          /\ KindOf(parent'[h]) = (CASE KindOf(h) = "texture" -> "renderer"
                                     [] KindOf(h) = "renderer" -> "window"
                                     [] OTHER -> "token")]_vars

\* A Renderer has been dropped, after its Textures, while its Window lives on.
C2_Witness ==
  /\ call.op = "Renderer::drop"
  /\ Live("window") # {}
  /\ Live("texture") = {}
  /\ Live("surface") # {}

\* C3: a resource's handle is released exactly once, when the resource is
\* dropped: the handles wrappers hold are exactly those the library has issued
\* and not destroyed (none released early, none left behind), no two wrappers
\* hold the same handle, and a drop ends exactly the dropped wrapper and passes
\* the native destroy function its handle, which was valid until then and is
\* the only one to end.
C3_ReleasedExactlyOnce ==
  [][/\ Held' = valid'
     /\ \A a, b \in alive' : ptr'[a] = ptr'[b] => a = b
     /\ \A op \in DropOps :
          Calls(op) =>
            /\ Cardinality(call'.handles) = 1
            /\ alive' = alive \ call'.handles
            /\ call'.args = <<ptr[CHOOSE h \in call'.handles : TRUE]>>
            /\ call'.args[1] \in valid
            /\ valid' = valid \ {call'.args[1]}]_vars

\* A Texture has been dropped and its Renderer's handle is still valid.
C3_Witness ==
  /\ call.op = "Texture::drop"
  /\ call.args[1] \notin valid
  /\ Live("renderer") # {}
  /\ {ptr[r] : r \in Live("renderer")} \subseteq valid

\* C4: whenever the layer passes a handle to the native library, the wrapper
\* holding it, all of that wrapper's owners and the token are alive, and the
\* native subsystem and the handle are live.
C4_NoUseAfterOwnerDestroyed == call.owned /\ call.live

\* A Texture is copied after the Surface it was made from has been dropped.
C4_Witness ==
  /\ call.op = "copy"
  /\ call.ret = Ok(0)
  /\ Cardinality(call.handles) = 2
  /\ Live("surface") = {}

\* C5: create_window returns Ok(Window) exactly when SDL_CreateWindow returned
\* a non-null handle, and the Window holds that handle; otherwise it returns
\* the error string and no Window (and no handle) has come into being.
C5_CreateWindowOkIffNonNull ==
  [][Calls("create_window") =>
       /\ call'.ret.tag \in {"Ok", "Err"}
       /\ call'.ret.tag = "Ok" <=> call'.nat # NULL
       /\ call'.ret.tag = "Ok" =>
            /\ call'.ret.val = call'.nat
            /\ call'.made \notin alive
            /\ alive' = alive \cup {call'.made}
            /\ ptr'[call'.made] = call'.nat
            /\ call'.nat \notin valid \cup Held
            /\ valid' = valid \cup {call'.nat}
       /\ call'.ret.tag = "Err" =>
            /\ call'.ret.val \in ErrorTexts
            /\ call'.ret.val = sdlError'
            /\ alive' = alive
            /\ valid' = valid]_vars

\* create_window has failed while a Window exists: no second one has appeared.
C5_Witness ==
  /\ call.op = "create_window"
  /\ call.ret.tag = "Err"
  /\ call.nat = NULL
  /\ Cardinality(Live("window")) = 1

\* The decodings of a sequence of records, in order.
Decoded(recs) == [i \in 1..Len(recs) |-> EventFrom(recs[i])]

\* C6: poll_event returns at once with None exactly when the queue is empty,
\* and otherwise takes the one record at the head; the events returned so far
\* are the decodings of the records posted so far, in posting order, each once,
\* and the records not yet returned are still queued, in order.
C6_PollEventFifo ==
  [][/\ Calls("poll_event") =>
          /\ call'.ret = None <=> queue = <<>>
          /\ queue = <<>> => (queue' = queue /\ polled' = polled)
          /\ queue # <<>> =>
               /\ queue' = Tail(queue)
               /\ call'.ret = Some(EventFrom(Head(queue)))
               /\ polled' = Append(polled, EventFrom(Head(queue)))
     /\ (tokens # {} /\ Idle) => ENABLED PollEvent
     /\ Len(polled') <= Len(pushed')
     /\ polled' = Decoded(SubSeq(pushed', 1, Len(polled')))
     /\ queue' = SubSeq(pushed', Len(polled') + 1, Len(pushed'))]_vars

\* Two different records were posted and both have been returned, in order,
\* and a later poll has found the queue empty.
C6_Witness ==
  /\ call.op = "poll_event"
  /\ call.ret = None
  /\ Len(polled) = 2
  /\ polled[1] # polled[2]
  /\ Len(pushed) = 2

\* C7: a polled quit record is returned as Some(Quit), and a polled record of
\* a type with no variant of its own as Some(Unknown) carrying that type.
C7_DecodingTotal ==
  [][(Calls("poll_event") /\ queue # <<>>) =>
       /\ call'.ret.tag = "Some"
       /\ Head(queue).type = SDL_QUIT => call'.ret.val.variant = "Quit"
       /\ Head(queue).type \notin ModeledTypes =>
            /\ call'.ret.val.variant = "Unknown"
            /\ call'.ret.val.type = Head(queue).type]_vars

\* A record of an unmodeled type has been polled after a quit record.
C7_Witness ==
  /\ call.op = "poll_event"
  /\ call.ret.tag = "Some"
  /\ call.ret.val.variant = "Unknown"
  /\ call.ret.val.type = SDL_USEREVENT
  /\ Len(polled) = 2
  /\ polled[1].variant = "Quit"

\* The named formats that are four-character codes.
FourccFormats ==
  {SDL_PIXELFORMAT_YV12, SDL_PIXELFORMAT_IYUV, SDL_PIXELFORMAT_YUY2,
   SDL_PIXELFORMAT_UYVY, SDL_PIXELFORMAT_YVYU, SDL_PIXELFORMAT_NV12,
   SDL_PIXELFORMAT_NV21, SDL_PIXELFORMAT_EXTERNAL_OES}

\* The accessors have been called on fmt.
HasDecoded == dec # NoDecode

\* C8: is_fourcc is true exactly when the code is greater than 0 and its bits
\* 28-31 are not 1: false for Unknown and every named bit-packed format, true
\* for every named YUV or external format.
C8_IsFourcc ==
  HasDecoded =>
    /\ dec.is_fourcc <=> (fmt > 0 /\ (fmt \div 268435456) % 16 # 1)
    /\ fmt = SDL_PIXELFORMAT_UNKNOWN => ~dec.is_fourcc
    /\ fmt \in MatchedFormats \ FourccFormats => ~dec.is_fourcc
    /\ fmt \in FourccFormats => dec.is_fourcc

\* The accessors have been called on NV21.
C8_Witness == HasDecoded /\ fmt = SDL_PIXELFORMAT_NV21 /\ dec.is_fourcc

\* C9: at most one of is_indexed, is_packed, is_array is true, and none is for
\* a four-character code, whatever its bits 24-27 are.
C9_KindsExclusive ==
  HasDecoded =>
    /\ Cardinality({k \in {"is_indexed", "is_packed", "is_array"} : dec[k]}) <= 1
    /\ dec.is_fourcc => (~dec.is_indexed /\ ~dec.is_packed /\ ~dec.is_array)
    /\ fmt = SDL_PIXELFORMAT_YV12 => (dec.is_fourcc /\ ~dec.is_packed /\ ~dec.is_array)

\* The accessors have been called on YV12, whose bits 24-27 are those of Index4.
C9_Witness ==
  /\ HasDecoded
  /\ fmt = SDL_PIXELFORMAT_YV12
  /\ (fmt \div 16777216) % 16 = SDL_PIXELTYPE_INDEX4
  /\ ~dec.is_indexed

\* C10: RGBA8888 decodes to 32 bits per pixel, 4 bytes per pixel, with alpha, packed.
C10_Rgba8888 ==
  (HasDecoded /\ fmt = SDL_PIXELFORMAT_RGBA8888) =>
    /\ dec.bits_per_pixel = 32
    /\ dec.bytes_per_pixel = 4
    /\ dec.is_alpha
    /\ dec.is_packed

\* The native library has reported the RGBA8888 code and it has been decoded.
C10_Witness ==
  /\ HasDecoded
  /\ raw = 373694468
  /\ fmt = SDL_PIXELFORMAT_RGBA8888
  /\ dec.pixel_type = "Packed32"

\* Bits 20-23 of the format: the order code.
OrderBits == (fmt \div 1048576) % 16

\* C11: is_alpha is true exactly when the decoded order is ARGB, RGBA, ABGR or
\* BGRA of the packed or of the array family (a packed format whose order code
\* is 3, 4, 7 or 8, an array format whose order code is 2, 3, 5 or 6), and so
\* false for every indexed format, every four-character code and Unknown.
C11_IsAlpha ==
  HasDecoded =>
    /\ dec.is_alpha <=>
         /\ dec.pixel_order[1] \in {"Packed", "Array"}
         /\ dec.pixel_order[2] \in {"ARGB", "RGBA", "ABGR", "BGRA"}
    /\ dec.is_alpha <=>
         \/ dec.is_packed /\ OrderBits \in {3, 4, 7, 8}
         \/ dec.is_array /\ OrderBits \in {2, 3, 5, 6}
    /\ dec.is_indexed => ~dec.is_alpha
    /\ dec.is_fourcc => ~dec.is_alpha
    /\ fmt = SDL_PIXELFORMAT_UNKNOWN => ~dec.is_alpha

\* BGR24 has been decoded: an array format whose order code, 4, is RGBA's
\* among the packed orders.
C11_Witness ==
  /\ HasDecoded
  /\ fmt = SDL_PIXELFORMAT_BGR24
  /\ OrderBits = SDL_PACKEDORDER_RGBA
  /\ dec.pixel_order = <<"Array", "BGR">>
  /\ ~dec.is_alpha

\* Bits 24-27 and 16-19 of the format: the type code and the layout code.
TypeBits == (fmt \div 16777216) % 16
LayoutBits == (fmt \div 65536) % 16

\* The values of PixelType, PixelOrder and PixelLayout.
PixelTypes ==
  {"Unknown", "Index1", "Index4", "Index8", "Packed8", "Packed16", "Packed32",
   "ArrayU8", "ArrayU16", "ArrayU32", "ArrayF16", "ArrayF32"}
PixelOrders ==
  ({"Bitmap"} \X {"None", "_4321", "_1234"})
  \cup ({"Packed"} \X {"None", "XRGB", "RGBX", "ARGB", "RGBA", "XBGR", "BGRX", "ABGR", "BGRA"})
  \cup ({"Array"} \X {"None", "RGB", "RGBA", "ARGB", "BGR", "BGRA", "ABGR"})
PixelLayouts ==
  {"None", "_332", "_4444", "_1555", "_5551", "_565", "_8888", "_2101010", "_1010102"}

\* C12: the conversion from a raw code and pixel_type, pixel_order and
\* pixel_layout always return a value of their type: a raw code bound to no
\* variant converts to Unknown, a type code outside 1..11 to PixelType::Unknown,
\* an order code its family does not name to that family's None, and a layout
\* code outside 1..8 to PixelLayout::None.
C12_DecodersTotal ==
  /\ fmt # NoFormat =>
       /\ fmt \in PixelFormatEnum
       /\ raw \in MatchedFormats => fmt = raw
       /\ raw \notin MatchedFormats => fmt = SDL_PIXELFORMAT_UNKNOWN
  /\ HasDecoded =>
       /\ dec.pixel_type \in PixelTypes
       /\ dec.pixel_order \in PixelOrders
       /\ dec.pixel_layout \in PixelLayouts
       /\ TypeBits \notin 1..11 => dec.pixel_type = "Unknown"
       /\ LayoutBits \notin 1..8 => dec.pixel_layout = "None"
       /\ (dec.pixel_order[1] = "Bitmap" /\ OrderBits \notin 1..2) => dec.pixel_order[2] = "None"
       /\ (dec.pixel_order[1] = "Packed" /\ OrderBits \notin 1..8) => dec.pixel_order[2] = "None"
       /\ (dec.pixel_order[1] = "Array" /\ OrderBits \notin 1..6) => dec.pixel_order[2] = "None"

\* The library has reported a code bound to no variant, one bit away from
\* RGBA8888, and the accessors have been called on the Unknown it converted to.
C12_Witness ==
  /\ HasDecoded
  /\ raw = SDL_PIXELFORMAT_RGBA8888 + 1
  /\ fmt = SDL_PIXELFORMAT_UNKNOWN
  /\ dec.pixel_type = "Unknown"
  /\ dec.pixel_order = <<"Bitmap", "None">>
  /\ dec.pixel_layout = "None"

\* C13: when open_default_audio_queue returns Ok, the AudioQueue has the
\* requested frequency, format and channel count in every dimension whose
\* allow-change flag in the request is false: an obtained spec that differs in
\* such a dimension is never returned as success. The code returns Ok with
\* whatever the library wrote, so this fails for a library that answers with
\* another value.
C13_AudioNegotiation ==
  [][\A t \in TokenIds, request \in AudioRequests :
       \A out \in AudioOutcomes(request) :
         (open_default_audio_queue(t, request, out) /\ call'.ret.tag = "Ok") =>
           /\ ~request.allow_frequency_change => call'.ret.val.frequency = request.frequency
           /\ ~request.allow_format_change => call'.ret.val.format = request.format
           /\ ~request.allow_channels_change => call'.ret.val.channels = request.channels]_vars

\* C14: a DisplayMode built with DisplayMode::new has null driver data; a
\* DisplayMode that display_mode returns has the driver data the native record
\* had; and set_display_mode gives the library the driver data of the
\* DisplayMode it was passed.
C14_DriverDataPassedThrough ==
  [][/\ NewDisplayMode => kept'.driver_data = NULL
     /\ (Calls("display_mode") /\ call'.ret.tag = "Ok") =>
          /\ call'.ret.val.driver_data = call'.args[1].driverdata
          /\ kept' = call'.ret.val
     /\ (Calls("set_display_mode") /\ call'.args[1] # NullMode) =>
          /\ kept # NoMode
          /\ call'.args[1].driverdata = kept.driver_data]_vars

\* The library reported a mode with driver data, and set_display_mode has
\* handed that driver data back.
C14_Witness ==
  /\ call.op = "set_display_mode"
  /\ call.args[1] # NullMode
  /\ call.args[1].driverdata = <<"driverdata", 1>>
  /\ kept # NoMode
  /\ kept.driver_data = <<"driverdata", 1>>

\* The fallible operations whose native call reports failure by a null pointer
\* (a zero device id for the audio queue), and those whose native call reports
\* it by a nonzero status.
PointerOps ==
  {"create_window", "create_rgb_surface", "create_renderer",
   "create_texture_from_surface", "open_controller", "load_cdylib",
   "open_default_audio_queue"}
StatusOps ==
  {"init", "clear", "copy", "display_mode", "set_display_mode", "set_fullscreen_style",
   "lone_message_box", "modal_message_box"}
\* The fallible operation whose native call reports failure by a negative count.
CountOps == {"number_of_joysticks"}
FallibleOps == PointerOps \cup StatusOps \cup CountOps

\* C15: every fallible operation returns to its caller, with Err exactly when
\* its native call gave the failure sentinel, and the Err carries the native
\* last-error string as it stands right after that call.
C15_FailuresPropagate ==
  /\ call.op \in FallibleOps => call.ret.tag \in {"Ok", "Err"}
  /\ call.op \in PointerOps => (call.ret.tag = "Err" <=> call.nat = NULL)
  /\ call.op \in StatusOps => (call.ret.tag = "Err" <=> call.nat # 0)
  /\ call.op \in CountOps => (call.ret.tag = "Err" <=> call.nat < 0)
  /\ (call.op \in FallibleOps /\ call.ret.tag = "Err") =>
       /\ call.ret.val = sdlError
       /\ sdlError \in ErrorTexts

\* A copy has failed and returned the error the native blit wrote.
C15_Witness ==
  /\ call.op = "copy"
  /\ call.nat # 0
  /\ call.ret = Err("e2")
  /\ sdlError = "e2"

\* C16: Renderer::copy does not check that the texture was created by the
\* renderer: with a live renderer and a live texture of another renderer the
\* call is accepted, the native blit is called, and the result is Ok when the
\* blit returns 0 and otherwise the native error, never an error of the layer.
C16_CrossUseNotEnforced ==
  /\ Idle =>
       \A r \in Live("renderer"), t \in Live("texture") :
         ENABLED copy(r, t, None, None, [rc |-> 0, msg |-> sdlError])
  /\ call.op = "copy" =>
       \A r \in call.handles, t \in call.handles :
         (KindOf(r) = "renderer" /\ KindOf(t) = "texture" /\ parent[t] # r) =>
           /\ call.ret.tag = "Ok" <=> call.nat = 0
           /\ call.ret.tag = "Err" => call.ret.val = sdlError /\ call.nat # 0

\* Two renderers are alive and a copy on one of them, with a texture the other
\* created, has returned Ok.
C16_Witness ==
  /\ call.op = "copy"
  /\ call.ret.tag = "Ok"
  /\ \E r \in call.handles, t \in call.handles :
       /\ KindOf(r) = "renderer"
       /\ KindOf(t) = "texture"
       /\ parent[t] # r
       /\ parent[t] \in alive
       /\ r \in alive

\* C17: bytes_per_pixel returns bits 0-7 of the code for every format that is
\* not a four-character code; for a four-character code it returns 2 for YUY2,
\* UYVY and YVYU and 1 for every other; bits_per_pixel returns bits 8-15 of the
\* code for every format.
C17_BytesAndBitsPerPixel ==
  HasDecoded =>
    /\ fmt \notin FourccFormats => dec.bytes_per_pixel = fmt % 256
    /\ fmt \in FourccFormats =>
         dec.bytes_per_pixel =
           IF fmt \in {SDL_PIXELFORMAT_YUY2, SDL_PIXELFORMAT_UYVY, SDL_PIXELFORMAT_YVYU}
             THEN 2 ELSE 1
    /\ dec.bits_per_pixel = (fmt \div 256) % 256

\* The accessors have been called on YUY2, whose low byte is not 2.
C17_Witness ==
  /\ HasDecoded
  /\ fmt = SDL_PIXELFORMAT_YUY2
  /\ fmt % 256 # 2
  /\ dec.bytes_per_pixel = 2
  /\ dec.bits_per_pixel = (fmt \div 256) % 256

\* The order names of each family, by order code (bits 20-23) counted from 1.
BitmapOrderNames == <<"_4321", "_1234">>
PackedOrderNames == <<"XRGB", "RGBX", "ARGB", "RGBA", "XBGR", "BGRX", "ABGR", "BGRA">>
ArrayOrderNames == <<"RGB", "RGBA", "ARGB", "BGR", "BGRA", "ABGR">>

\* The family pixel_type reports, "none" for PixelType::Unknown.
TypeFamily ==
  CASE dec.pixel_type \in {"Index1", "Index4", "Index8"} -> "Bitmap"
    [] dec.pixel_type \in {"Packed8", "Packed16", "Packed32"} -> "Packed"
    [] dec.pixel_type \in {"ArrayU8", "ArrayU16", "ArrayU32", "ArrayF16", "ArrayF32"} -> "Array"
    [] OTHER -> "none"

\* The name the family fam gives to the order code of fmt.
OrderName(fam) ==
  LET names == CASE fam = "Packed" -> PackedOrderNames
                 [] fam = "Array" -> ArrayOrderNames
                 [] OTHER -> BitmapOrderNames
  IN  IF OrderBits \in 1..Len(names) THEN names[OrderBits] ELSE "None"

\* C18 as stated: pixel_order reads bits 20-23 in the family of the pixel
\* type: a Bitmap order for every indexed format, a Packed order exactly when
\* is_packed, an Array order exactly when is_array; and for every format that
\* is not a four-character code the family of the order is the family
\* pixel_type reports. It fails on the Unknown format (code 0), which is not a
\* four-character code: pixel_type reports no family, pixel_order a Bitmap order.
C18_PixelOrderByFamily ==
  HasDecoded =>
    /\ dec.is_indexed => dec.pixel_order[1] = "Bitmap"
    /\ dec.pixel_order[1] = "Packed" <=> dec.is_packed
    /\ dec.pixel_order[1] = "Array" <=> dec.is_array
    /\ fmt \notin FourccFormats => dec.pixel_order[1] = TypeFamily

\* C18 amended: the same three cases; for a format that is not a
\* four-character code the family of the order is the family pixel_type
\* reports when it reports one, and when it reports PixelType::Unknown the
\* order is Bitmap(None); and the order is the name its family gives to the
\* code in bits 20-23.
C18_PixelOrderByReportedFamily ==
  HasDecoded =>
    /\ dec.is_indexed => dec.pixel_order[1] = "Bitmap"
    /\ dec.pixel_order[1] = "Packed" <=> dec.is_packed
    /\ dec.pixel_order[1] = "Array" <=> dec.is_array
    /\ (fmt \notin FourccFormats /\ TypeFamily # "none") => dec.pixel_order[1] = TypeFamily
    /\ (fmt \notin FourccFormats /\ TypeFamily = "none") =>
         dec.pixel_order = <<"Bitmap", "None">>
    /\ dec.pixel_order[2] = OrderName(dec.pixel_order[1])

\* The accessors have been called on RGB24, an array format of order code 1:
\* the order is the array family's RGB, not the packed family's XRGB.
C18_Witness ==
  /\ HasDecoded
  /\ fmt = SDL_PIXELFORMAT_RGB24
  /\ OrderBits = 1
  /\ dec.is_array
  /\ dec.pixel_order = <<"Array", "RGB">>

\* C19: create_renderer passes the native driver index -1 exactly when
\* driver_index is None, and for Some(n) passes n itself: an index <<q, r>>
\* (n = q * 2^31 + r) arrives as r with q = 0, never as -1 or another negative
\* number.
C19_DriverIndexExact ==
  [][\A w \in OfKind("window"), i \in DriverIndexes, flags \in RendererFlagSets,
        out \in PtrOutcomes("renderer") :
       create_renderer(w, i, flags, out) =>
         /\ call'.args[1] = -1 <=> i.tag = "None"
         /\ i.tag = "Some" =>
              /\ call'.args[1] >= 0
              /\ i.val[1] = 0
              /\ call'.args[1] = i.val[2]]_vars

\* C20: a display mode converted to a DisplayMode and back is the record the
\* library reported, in every field, the format code included.
C20_RoundTripLossless ==
  [][(Calls("display_mode") /\ call'.ret.tag = "Ok") =>
       SDL_DisplayModeFrom(kept') = call'.args[1]]_vars

\* C20, amended: the round trip keeps the width, height, refresh rate and driver
\* data of every reported record; it keeps the format code exactly when a
\* variant of PixelFormatEnum is bound to it, and turns any other code into 0,
\* the code of Unknown; so set_display_mode(Some(mode)) passes the library a
\* format that is a variant's code.
C20_RoundTripNamedFormats ==
  [][/\ (Calls("display_mode") /\ call'.ret.tag = "Ok") =>
          LET m == call'.args[1]
              back == SDL_DisplayModeFrom(kept')
          IN  /\ back.w = m.w
              /\ back.h = m.h
              /\ back.refresh_rate = m.refresh_rate
              /\ back.driverdata = m.driverdata
              /\ m.format \in PixelFormatEnum => back = m
              /\ m.format \notin PixelFormatEnum => back.format = 0
     /\ (Calls("set_display_mode") /\ call'.args[1] # NullMode) =>
          /\ call'.args[1] = SDL_DisplayModeFrom(kept)
          /\ call'.args[1].format \in PixelFormatEnum]_vars

\* The library has reported a mode whose format code no variant is bound to,
\* and the DisplayMode returned converts back to a record with format 0.
C20_Witness ==
  /\ call.op = "display_mode"
  /\ call.ret.tag = "Ok"
  /\ call.args[1].format \notin PixelFormatEnum
  /\ kept = call.ret.val
  /\ kept.format = SDL_PIXELFORMAT_UNKNOWN
  /\ SDL_DisplayModeFrom(kept).format # call.args[1].format
  /\ SDL_DisplayModeFrom(kept).w = call.args[1].w

====
